---- MODULE Spec2Model ----
(***************************************************************************)
(* Model of router-rs: the Router (crates/router-rs/src/router.rs) and the *)
(* Route it scans.  Strings are sequences of one-character strings, so     *)
(* that splitting a path into segments and decoding a placeholder are      *)
(* computed and not assumed.                                               *)
(***************************************************************************)
EXTENDS Integers, Sequences, FiniteSets, TLC

(***************************************************************************)
(* Bound of the model: the number of add_route calls that are explored.    *)
(***************************************************************************)
MaxRoutes == 3

(***************************************************************************)
(* Text                                                                    *)
(***************************************************************************)
Slash == "/"
Colon == ":"
Digits == <<"0", "1", "2", "3", "4", "5", "6", "7", "8", "9">>

s_users == <<"u", "s", "e", "r", "s">>
s_posts == <<"p", "o", "s", "t", "s">>
s_name == <<"n", "a", "m", "e">>
s_id == <<"i", "d">>
s_5 == <<"5">>
s_abc == <<"a", "b", "c">>
s_notanumber == <<"n", "o", "t", "a", "n", "u", "m", "b", "e", "r">>

\* "/a/b/c" from <<a, b, c>>
RECURSIVE Join(_)
Join(segs) ==
    IF segs = <<>> THEN <<>>
    ELSE <<Slash>> \o Head(segs) \o Join(Tail(segs))

(***************************************************************************)
(* Route (crate::Route): pattern, parameter types, view factory.           *)
(***************************************************************************)
ParamType == {"U64", "String"}

RouteNew(route_definition, route_param_types, view_creator) ==
    [route_definition |-> route_definition,
     route_param_types |-> route_param_types,
     view_creator |-> view_creator]

\* The pieces of s between separators, empty pieces included.
RECURSIVE SplitOn(_, _, _)
SplitOn(s, cur, acc) ==
    IF s = <<>> THEN Append(acc, cur)
    ELSE IF Head(s) = Slash THEN SplitOn(Tail(s), <<>>, Append(acc, cur))
    ELSE SplitOn(Tail(s), Append(cur, Head(s)), acc)

RECURSIVE DropLeadingEmpty(_)
DropLeadingEmpty(segs) ==
    IF segs # <<>> /\ Head(segs) = <<>> THEN DropLeadingEmpty(Tail(segs))
    ELSE segs

RECURSIVE DropTrailingEmpty(_)
DropTrailingEmpty(segs) ==
    IF segs # <<>> /\ segs[Len(segs)] = <<>>
    THEN DropTrailingEmpty(SubSeq(segs, 1, Len(segs) - 1))
    ELSE segs

\* Segments of a path or of a pattern: split by "/", leading and trailing
\* separators ignored.
Segments(s) == DropTrailingEmpty(DropLeadingEmpty(SplitOn(s, <<>>, <<>>)))

IsDigit(c) == \E d \in 1..Len(Digits) : Digits[d] = c

DigitValue(c) == (CHOOSE d \in 1..Len(Digits) : Digits[d] = c) - 1

RECURSIVE StripZeros(_)
StripZeros(text) ==
    IF Len(text) > 1 /\ Head(text) = "0" THEN StripZeros(Tail(text)) ELSE text

\* u64::MAX, as decimal digits
U64Max == <<"1", "8", "4", "4", "6", "7", "4", "4", "0", "7",
            "3", "7", "0", "9", "5", "5", "1", "6", "1", "5">>

\* a <= b for digit sequences of the same length
RECURSIVE DigitsLeq(_, _)
DigitsLeq(a, b) ==
    IF a = <<>> THEN TRUE
    ELSE IF DigitValue(Head(a)) < DigitValue(Head(b)) THEN TRUE
    ELSE IF DigitValue(Head(a)) > DigitValue(Head(b)) THEN FALSE
    ELSE DigitsLeq(Tail(a), Tail(b))

InU64Range(text) ==
    LET t == StripZeros(text) IN
    \/ Len(t) < Len(U64Max)
    \/ Len(t) = Len(U64Max) /\ DigitsLeq(t, U64Max)

\* Whether the text of a path segment decodes as the declared type.
CanDecode(param_type, text) ==
    IF param_type = "String" THEN TRUE
    ELSE /\ text # <<>>
         /\ \A k \in 1..Len(text) : IsDigit(text[k])
         /\ InU64Range(text)

RECURSIVE NatValue(_, _)
NatValue(text, acc) ==
    IF text = <<>> THEN acc
    ELSE NatValue(Tail(text), acc * 10 + DigitValue(Head(text)))

\* The decoded value of a segment that CanDecode.
Decode(param_type, text) ==
    IF param_type = "String" THEN [type |-> "String", value |-> text]
    ELSE [type |-> "U64", value |-> NatValue(text, 0)]

IsPlaceholder(seg) == seg # <<>> /\ Head(seg) = Colon

ParamName(seg) == Tail(seg)

Range(f) == {f[x] : x \in DOMAIN f}

\* One pattern segment against one path segment.
SegmentMatches(route, defined, incoming) ==
    IF IsPlaceholder(defined)
    THEN /\ incoming # <<>>
         /\ ParamName(defined) \in DOMAIN route.route_param_types
         /\ CanDecode(route.route_param_types[ParamName(defined)], incoming)
    ELSE defined = incoming

\* Route::matches
Matches(route, path) ==
    LET defined_segments == Segments(route.route_definition)
        incoming_segments == Segments(path)
    IN  /\ Len(defined_segments) = Len(incoming_segments)
        /\ \A k \in 1..Len(defined_segments) :
               SegmentMatches(route, defined_segments[k], incoming_segments[k])

Panic == [panic |-> TRUE]

\* Route::view: decode every placeholder, hand the mapping to the factory.
\* The factory of a route is a closure named by view_creator; the view it
\* builds is identified by that name and the parameters it was given.
RouteView(route, path) ==
    IF ~Matches(route, path) THEN Panic
    ELSE
    LET defined_segments == Segments(route.route_definition)
        incoming_segments == Segments(path)
        holders == {k \in 1..Len(defined_segments) :
                       IsPlaceholder(defined_segments[k])}
        names == {ParamName(defined_segments[k]) : k \in holders}
        at(n) == CHOOSE k \in holders : ParamName(defined_segments[k]) = n
    IN  [kind |-> route.view_creator,
         params |-> [n \in names |->
                       Decode(route.route_param_types[n], incoming_segments[at(n)])]]

(***************************************************************************)
(* Inputs: the routes and paths of the tests of router.rs, and the paths   *)
(* of the scenarios around them.                                           *)
(***************************************************************************)
IdU64 == (s_id :> "U64")
IdString == (s_id :> "String")

first_route == RouteNew(Join(<<s_users, <<Colon>> \o s_id>>), IdU64, "first")
second_route == RouteNew(Join(<<s_users, <<Colon>> \o s_id, s_name>>), IdU64, "second")
users_route == RouteNew(Join(<<s_users>>), IdU64, "users")
posts_route == RouteNew(Join(<<s_posts>>), IdU64, "posts")
profile_route == RouteNew(Join(<<s_users, <<Colon>> \o s_id>>), IdString, "profile")

Routes == {first_route, second_route, users_route, posts_route, profile_route}

p_users == Join(<<s_users>>)
p_users_5 == Join(<<s_users, s_5>>)
p_users_abc == Join(<<s_users, s_abc>>)
p_users_5_name == Join(<<s_users, s_5, s_name>>)
p_users_notanumber == Join(<<s_users, s_notanumber>>)
p_posts == Join(<<s_posts>>)

Paths == {p_users, p_users_5, p_users_abc, p_users_5_name, p_users_notanumber,
          p_posts}

\* Route::matches and Route::view over the inputs, computed once.
route_matches == [route \in Routes |-> [path \in Paths |-> Matches(route, path)]]

route_view == [route \in Routes |-> [path \in Paths |-> RouteView(route, path)]]

(***************************************************************************)
(* Router                                                                  *)
(***************************************************************************)
VARIABLES
    routes,          \* Router.routes
    op,              \* the last operation called on the Router
    incoming_route,  \* argument of the last view call
    ret,             \* what the last view call returned
    calls,           \* the calls the last view call made on routes, in order
    seen,            \* path -> what view returned for it since the last add_route
    repeat           \* the last view call asked for a path already in seen

vars == <<routes, op, incoming_route, ret, calls, seen, repeat>>

None == [none |-> TRUE]

Some(v) == [some |-> v]

Unqueried == [unqueried |-> TRUE]

MatchesCall(i, result) == [fn |-> "matches", route |-> i, result |-> result]

ViewCall(i) == [fn |-> "view", route |-> i]

\* The routes of rs that match path, by index.
Matching(rs, path) == {i \in 1..Len(rs) : route_matches[rs[i]][path]}

Min(S) == CHOOSE x \in S : \A y \in S : x <= y

Max(S) == CHOOSE x \in S : \A y \in S : x >= y

\* Variant of the loop that keeps the last match and not the first.
ScanLastMatch(rs, i, path, log) ==
    LET M == {j \in Matching(rs, path) : j >= i}
        all == [j \in 1..Len(rs) |-> MatchesCall(j, route_matches[rs[j]][path])]
    IN  IF M = {} THEN [ret |-> None, calls |-> log \o all]
        ELSE [ret |-> Some(route_view[rs[Max(M)]][path]),
              calls |-> log \o all \o <<MatchesCall(Max(M), TRUE), ViewCall(Max(M))>>]

\* Variant of the loop that gives up at the first route that does not match.
ScanStopOnMismatch(rs, i, path, log) ==
    IF i > Len(rs) THEN [ret |-> None, calls |-> log]
    ELSE
    LET m == route_matches[rs[i]][path]
        log1 == Append(log, MatchesCall(i, m))
    IN  IF m
        THEN [ret |-> Some(route_view[rs[i]][path]),
              calls |-> Append(log1, ViewCall(i))]
        ELSE [ret |-> None, calls |-> log1]

\* Variant of the loop that asks the route for its view without asking
\* whether it matches.
ScanNoCheck(rs, i, path, log) ==
    IF i > Len(rs) THEN [ret |-> None, calls |-> log]
    ELSE [ret |-> Some(route_view[rs[i]][path]),
          calls |-> Append(log, ViewCall(i))]

\* The loop of Router::view from the i-th route on; log is the calls made so far.
RECURSIVE Scan(_, _, _, _)
Scan(rs, i, path, log) ==
    IF i > Len(rs) THEN [ret |-> None, calls |-> log]
    ELSE
    LET m == route_matches[rs[i]][path]
        log1 == Append(log, MatchesCall(i, m))
    IN  IF m
        THEN [ret |-> Some(route_view[rs[i]][path]),
              calls |-> Append(log1, ViewCall(i))]
        ELSE Scan(rs, i + 1, path, log1)

\* Router::default
Init ==
    /\ routes = <<>>
    /\ op = "default"
    /\ incoming_route = <<>>
    /\ ret = None
    /\ calls = <<>>
    /\ seen = [p \in Paths |-> Unqueried]
    /\ repeat = FALSE

\* Variant of add_route that drops a route that is already registered.
AddRouteDedup(route) ==
    /\ Len(routes) < MaxRoutes
    /\ routes' = IF \E i \in 1..Len(routes) : routes[i] = route
                 THEN routes ELSE Append(routes, route)
    /\ op' = "add_route"
    /\ seen' = [p \in Paths |-> Unqueried]
    /\ repeat' = FALSE
    /\ UNCHANGED <<incoming_route, ret, calls>>

\* Variant of add_route that puts the new route in front.
AddRouteFront(route) ==
    /\ Len(routes) < MaxRoutes
    /\ routes' = <<route>> \o routes
    /\ op' = "add_route"
    /\ seen' = [p \in Paths |-> Unqueried]
    /\ repeat' = FALSE
    /\ UNCHANGED <<incoming_route, ret, calls>>

\* Router::add_route
AddRoute(route) ==
    /\ Len(routes) < MaxRoutes
    /\ routes' = Append(routes, route)
    /\ op' = "add_route"
    /\ seen' = [p \in Paths |-> Unqueried]
    /\ repeat' = FALSE
    /\ UNCHANGED <<incoming_route, ret, calls>>

\* Variant of view that moves the route it resolved to, to the end of the list.
ViewMoveToBack(path) ==
    LET r == Scan(routes, 1, path, <<>>)
        M == Matching(routes, path)
    IN
    /\ op' = "view"
    /\ incoming_route' = path
    /\ ret' = r.ret
    /\ calls' = r.calls
    /\ seen' = [seen EXCEPT ![path] = r.ret]
    /\ repeat' = (seen[path] # Unqueried)
    /\ routes' = IF M = {} THEN routes
                 ELSE SubSeq(routes, 1, Min(M) - 1)
                      \o SubSeq(routes, Min(M) + 1, Len(routes))
                      \o <<routes[Min(M)]>>

\* Router::view
View(path) ==
    LET r == Scan(routes, 1, path, <<>>) IN
    /\ op' = "view"
    /\ incoming_route' = path
    /\ ret' = r.ret
    /\ calls' = r.calls
    /\ seen' = [seen EXCEPT ![path] = r.ret]
    /\ repeat' = (seen[path] # Unqueried)
    /\ UNCHANGED routes

Next ==
    \/ \E route \in Routes : AddRoute(route)
    \/ \E path \in Paths : View(path)

Spec == Init /\ [][Next]_vars

(***************************************************************************)
(* Properties                                                              *)
(***************************************************************************)
\* The routes on which the calls of a lookup invoked Route::view, in order.
ViewCalls(cs) == SelectSeq(cs, LAMBDA c : c.fn = "view")

\* What Router::view returns for path on the list rs.
Lookup(rs, path) == Scan(rs, 1, path, <<>>)

\* C1: view(p) returns the view of the matching route with the smallest
\* registration index, and None exactly when no registered route matches p.
C1_FirstMatch ==
    op = "view" =>
        LET M == Matching(routes, incoming_route) IN
        /\ (ret = None) <=> (M = {})
        /\ M # {} =>
              /\ ret = Some(route_view[routes[Min(M)]][incoming_route])
              /\ ViewCalls(calls) = <<ViewCall(Min(M))>>
        /\ M = {} => ViewCalls(calls) = <<>>

\* A lookup that two registered routes match, the first of them not being
\* the first route of the list.
C1_Witness ==
    /\ op = "view"
    /\ Cardinality(Matching(routes, incoming_route)) >= 2
    /\ Min(Matching(routes, incoming_route)) > 1
    /\ ret = Some(route_view[routes[Min(Matching(routes, incoming_route))]][incoming_route])

\* C2: the Router starts empty; add_route appends exactly the one route at
\* the end, whether or not it is already registered, and view leaves the
\* list as it is.
C2_AppendOnly ==
    /\ [](op = "default" => routes = <<>>)
    /\ [][/\ op' = "add_route" =>
                \E route \in Routes : routes' = Append(routes, route)
          /\ op' # "add_route" => routes' = routes]_vars

\* A route registered a second time, with another route in between.
C2_Witness ==
    /\ op = "add_route"
    /\ Len(routes) = 3
    /\ routes[1] = routes[3]
    /\ routes[1] # routes[2]

\* C3: between two add_route calls, every view call for a path returns what
\* the earlier view calls for that path returned, and view does not change
\* the route list.
C3_Determinism ==
    [][/\ \A p \in Paths :
             (seen[p] # Unqueried /\ seen'[p] # Unqueried) => seen'[p] = seen[p]
       /\ op' = "view" => routes' = routes]_vars

\* A path looked up again after another path was looked up, resolving to a
\* route both times.
C3_Witness ==
    /\ op = "view"
    /\ repeat
    /\ ret # None
    /\ seen[incoming_route] = ret
    /\ \E p \in Paths : p # incoming_route /\ seen[p] # Unqueried

\* C4: of two routes that both match a path, the one registered first gives
\* the view, in either order of registration.
C4_OrderSensitivity ==
    \A p \in Paths :
        (Len(routes) = 2 /\ Matching(routes, p) = {1, 2}) =>
            LET A == routes[1]
                B == routes[2]
            IN  /\ Lookup(<<A, B>>, p).ret = Some(route_view[A][p])
                /\ ViewCalls(Lookup(<<A, B>>, p).calls) = <<ViewCall(1)>>
                /\ Lookup(<<B, A>>, p).ret = Some(route_view[B][p])
                /\ route_view[A][p] # route_view[B][p] =>
                       Lookup(<<A, B>>, p).ret # Lookup(<<B, A>>, p).ret
                /\ (op = "view" /\ incoming_route = p) => ret = Some(route_view[A][p])

\* Two different routes that match the path of the lookup and build
\* different views for it.
C4_Witness ==
    /\ op = "view"
    /\ Len(routes) = 2
    /\ Matching(routes, incoming_route) = {1, 2}
    /\ route_view[routes[1]][incoming_route] # route_view[routes[2]][incoming_route]
    /\ ret = Some(route_view[routes[1]][incoming_route])

\* Route j is registered after route i, and i matches every path j matches.
Shadowed(rs, i, j) ==
    /\ i < j
    /\ \A p \in Paths : route_matches[rs[j]][p] => route_matches[rs[i]][p]

\* C5: a route shadowed by an earlier route never gives the view of a
\* lookup, and add_route accepts every route whatever is registered.
C5_Shadowing ==
    /\ \A i, j \in 1..Len(routes) :
           Shadowed(routes, i, j) =>
               /\ \A p \in Paths : ViewCall(j) \notin Range(Lookup(routes, p).calls)
               /\ op = "view" => ViewCall(j) \notin Range(calls)
    /\ Len(routes) < MaxRoutes => \A route \in Routes : ENABLED AddRoute(route)

\* A lookup of a path that a shadowed route matches, after a further
\* add_route.
C5_Witness ==
    /\ op = "view"
    /\ Len(routes) = 3
    /\ \E i, j \in 1..2 :
           /\ Shadowed(routes, i, j)
           /\ routes[i] # routes[j]
           /\ route_matches[routes[j]][incoming_route]
    /\ ret # None

SegmentCountStrict ==
    /\ \A route \in Routes : \A p \in Paths :
           Matches(route, p) =>
               Len(Segments(route.route_definition)) = Len(Segments(p))
    /\ ~Matches(first_route, p_users)
    /\ ~Matches(first_route, p_users_5_name)

\* C6: a route matches only paths with as many segments as its pattern, so
\* /users/:id matches neither /users nor /users/5/name, and with the routes
\* [/users/:id, /users/:id/name] the path /users/5/name resolves via the
\* second route.
C6_SegmentCount ==
    /\ SegmentCountStrict
    /\ (/\ op = "view"
        /\ routes = <<first_route, second_route>>
        /\ incoming_route = p_users_5_name) =>
           /\ ret = Some(route_view[second_route][p_users_5_name])
           /\ ret.some.kind = "second"
           /\ calls = <<MatchesCall(1, FALSE), MatchesCall(2, TRUE), ViewCall(2)>>

\* The lookup of the test match_route.
C6_Witness ==
    /\ op = "view"
    /\ routes = <<first_route, second_route>>
    /\ incoming_route = p_users_5_name
    /\ ret # None

PlaceholderTypeStrict ==
    /\ \A route \in Routes : \A p \in Paths :
           Matches(route, p) =>
               \A k \in 1..Len(Segments(p)) :
                   IsPlaceholder(Segments(route.route_definition)[k]) =>
                       /\ Segments(p)[k] # <<>>
                       /\ CanDecode(
                              route.route_param_types[
                                  ParamName(Segments(route.route_definition)[k])],
                              Segments(p)[k])
    /\ Matches(first_route, p_users_5)
    /\ ~Matches(first_route, p_users_abc)
    /\ ~Matches(first_route, p_users_notanumber)

\* C7: a placeholder matches a segment only if the segment is not empty and
\* decodes as the declared type; with the single route /users/:id (U64),
\* /users/5 gives a view and /users/abc and /users/notanumber give None.
C7_PlaceholderType ==
    /\ PlaceholderTypeStrict
    /\ (op = "view" /\ routes = <<first_route>>) =>
           /\ incoming_route = p_users_5 =>
                  /\ ret # None
                  /\ ret.some.kind = "first"
                  /\ ret.some.params[s_id] = [type |-> "U64", value |-> 5]
           /\ incoming_route \in {p_users_abc, p_users_notanumber} =>
                  /\ ret = None
                  /\ calls = <<MatchesCall(1, FALSE)>>

\* The single route /users/:id asked for a segment that is not a number.
C7_Witness ==
    /\ op = "view"
    /\ routes = <<first_route>>
    /\ incoming_route = p_users_notanumber
    /\ seen[p_users_5] # Unqueried
    /\ seen[p_users_5] # None
    /\ seen[p_users_abc] = None

\* The pattern of the route has the shape of the path: as many segments,
\* equal literals, non-empty text for every placeholder.
ShapeFits(route, path) ==
    LET defined_segments == Segments(route.route_definition)
        incoming_segments == Segments(path)
    IN  /\ Len(defined_segments) = Len(incoming_segments)
        /\ \A k \in 1..Len(defined_segments) :
               IF IsPlaceholder(defined_segments[k])
               THEN incoming_segments[k] # <<>>
               ELSE defined_segments[k] = incoming_segments[k]

DecodeFails(route, path) == ShapeFits(route, path) /\ ~Matches(route, path)

shape_fits == [route \in Routes |-> [path \in Paths |-> ShapeFits(route, path)]]

decode_fails == [route \in Routes |-> [path \in Paths |-> DecodeFails(route, path)]]

\* C8: a route whose placeholder fails to decode is skipped like any other
\* route that does not match: the lookup goes on to the later routes and
\* returns the view of the first of them that matches, or None; it returns
\* nothing else.
C8_DecodeFailureSkipped ==
    op = "view" =>
        /\ \A i \in 1..Len(routes) :
               (decode_fails[routes[i]][incoming_route]
                /\ \A h \in 1..(i - 1) : ~route_matches[routes[h]][incoming_route]) =>
                   LET later == {j \in Matching(routes, incoming_route) : j > i} IN
                   /\ MatchesCall(i, FALSE) \in Range(calls)
                   /\ ret = IF later = {} THEN None
                            ELSE Some(route_view[routes[Min(later)]][incoming_route])
        /\ \/ ret = None
           \/ \E route \in Routes : ret = Some(route_view[route][incoming_route])
        /\ ret # Some(Panic)

\* A route that fails to decode, then a route that does not fit, then the
\* route that gives the view.
C8_Witness ==
    /\ op = "view"
    /\ Len(routes) = 3
    /\ decode_fails[routes[1]][incoming_route]
    /\ ~shape_fits[routes[2]][incoming_route]
    /\ ret = Some(route_view[routes[3]][incoming_route])

\* C9: a lookup invokes Route::view only on a route whose matches has just
\* returned true, on at most one route, as its last call, and on no route
\* when it returns None.
C9_ViewAfterMatches ==
    op = "view" =>
        /\ \A k \in 1..Len(calls) :
               calls[k].fn = "view" =>
                   /\ k > 1
                   /\ calls[k - 1] = MatchesCall(calls[k].route, TRUE)
                   /\ route_matches[routes[calls[k].route]][incoming_route]
                   /\ k = Len(calls)
        /\ Len(ViewCalls(calls)) <= 1
        /\ ret = None => ViewCalls(calls) = <<>>
        /\ ret # Some(Panic)

\* A lookup that skipped two routes and invoked Route::view on the third.
C9_Witness ==
    /\ op = "view"
    /\ calls = <<MatchesCall(1, FALSE), MatchesCall(2, FALSE),
                 MatchesCall(3, TRUE), ViewCall(3)>>

\* C10: a path that resolves to a route resolves to the same route after
\* every further add_route; add_route changes the result only of paths that
\* resolved to None.
C10_StableUnderRegistration ==
    [][routes' # routes =>
           \A p \in Paths :
               Lookup(routes, p).ret # None =>
                   /\ Lookup(routes', p).ret = Lookup(routes, p).ret
                   /\ ViewCalls(Lookup(routes', p).calls)
                          = ViewCalls(Lookup(routes, p).calls)]_vars

\* The last lookup resolved to a route; a route that matches the same path
\* was registered afterwards, and the path still resolves as before.
C10_Witness ==
    /\ op = "add_route"
    /\ ret # None
    /\ route_matches[routes[Len(routes)]][incoming_route]
    /\ route_view[routes[Len(routes)]][incoming_route] # ret.some
    /\ Lookup(routes, incoming_route).ret = ret

====
